---------------------------- MODULE Spec2Model ----------------------------
(***************************************************************************)
(* The /transcribe request of src/app.py as a state machine: reference     *)
(* validation, caption retrieval (tier 1), multi-strategy acquisition      *)
(* (tier 2), the duration guard, normalization and recognition (tier 3),   *)
(* with the files the request creates and the response it gives; and the   *)
(* /upload request, which shares tier 3.                                   *)
(*                                                                         *)
(* Spec is one /transcribe request on a filesystem that removes what it is *)
(* asked to; SpecFault is the same request on a filesystem that refuses    *)
(* some removals; SpecLive adds the fairness of a handler whose external   *)
(* calls return; SpecExtract is the validation alone on more references;   *)
(* SpecConc is two requests interleaved by a scheduler.                    *)
(*                                                                         *)
(* Python strings are sequences of one-character strings, so that strip,   *)
(* lower, join, substring tests and the regular expressions are computed   *)
(* and not assumed.  The accented letters and the emoji of the program's   *)
(* message literals are written without accent (resp. left out): no test   *)
(* of the program reads them.  An Optional value is a sequence of length   *)
(* 0 (None) or 1.  A float of seconds is an integer of microseconds.       *)
(***************************************************************************)
EXTENDS Integers, Sequences, FiniteSets, TLC

VARIABLES
  pc,              \* position of the request inside transcribe()
  form,            \* request.form["youtube_url"], the raw input
  input_url,       \* transcribe: input_url (stripped)
  video_id,        \* transcribe: video_id
  transcript_text, \* transcribe: transcript_text (Optional)
  method_used,     \* transcribe: method_used (Optional)
  temp_dir,        \* download_youtube_audio_with_fallbacks: temp_dir (Optional)
  idx,             \* download_youtube_audio_with_fallbacks: position of the for loop
  last_error,      \* download_youtube_audio_with_fallbacks: last_error (Optional)
  file_path,       \* transcribe: file_path (Optional)
  duration,        \* transcribe: duration, in microseconds
  wav_path,        \* transcribe_with_whisper_local: wav_path (Optional)
  disk,            \* the paths that exist on disk
  flashes,         \* the messages flashed to the user, in order
  response,        \* the response returned (Optional)
  calls,           \* history: the external calls made, in order
  env,             \* history: what the external collaborators answered
  route,           \* the route of the request: "transcribe" or "upload"
  upload_file,     \* upload: request.files["video_file"] (Optional)
  rid,             \* the request that is running
  faults,          \* the extensions of the paths whose removal fails
  others           \* the requests that are not running, each with its own state

vars == <<pc, form, input_url, video_id, transcript_text, method_used, temp_dir,
          idx, last_error, file_path, duration, wav_path, disk, flashes,
          response, calls, env, route, upload_file, rid, faults, others>>

\* what no step of a request changes
fixed == <<route, upload_file, rid, faults, others>>

None == <<>>
Some(x) == <<x>>

----------------------------------------------------------------------------
(* Python string operations                                                *)

WS == {" ", "\t"}

RECURSIVE lstrip(_)
lstrip(s) == IF s # <<>> /\ Head(s) \in WS THEN lstrip(Tail(s)) ELSE s

RECURSIVE rstrip(_)
rstrip(s) ==
  IF s # <<>> /\ s[Len(s)] \in WS THEN rstrip(SubSeq(s, 1, Len(s) - 1)) ELSE s

\* str.strip()
strip(s) == rstrip(lstrip(s))

UPPERCASE ==
  <<"A","B","C","D","E","F","G","H","I","J","K","L","M",
    "N","O","P","Q","R","S","T","U","V","W","X","Y","Z">>

LOWERCASE ==
  <<"a","b","c","d","e","f","g","h","i","j","k","l","m",
    "n","o","p","q","r","s","t","u","v","w","x","y","z">>

DIGITS == <<"0","1","2","3","4","5","6","7","8","9">>

lower_char(c) ==
  IF \E i \in DOMAIN UPPERCASE : UPPERCASE[i] = c
  THEN LOWERCASE[CHOOSE i \in DOMAIN UPPERCASE : UPPERCASE[i] = c]
  ELSE c

\* str.lower()
lower(s) == [i \in 1..Len(s) |-> lower_char(s[i])]

\* the literal lit stands in s at position i
MatchAt(s, i, lit) ==
  /\ i >= 1
  /\ i + Len(lit) - 1 <= Len(s)
  /\ SubSeq(s, i, i + Len(lit) - 1) = lit

\* sub in s
contains(sub, s) == \E i \in 1..(Len(s) + 1) : MatchAt(s, i, sub)

\* sep.join(parts)
RECURSIVE join(_, _)
join(sep, parts) ==
  IF parts = <<>> THEN <<>>
  ELSE IF Len(parts) = 1 THEN parts[1]
  ELSE parts[1] \o sep \o join(sep, Tail(parts))

\* str(n) of a natural number
RECURSIVE int_to_str(_)
int_to_str(n) ==
  IF n < 10 THEN <<DIGITS[n + 1]>>
  ELSE int_to_str(n \div 10) \o <<DIGITS[(n % 10) + 1]>>

digit_value(c) == (CHOOSE i \in DOMAIN DIGITS : DIGITS[i] = c) - 1

is_digits(s) == s # <<>> /\ \A i \in 1..Len(s) : \E d \in DOMAIN DIGITS : DIGITS[d] = s[i]

RECURSIVE digits_to_int(_)
digits_to_int(s) ==
  IF s = <<>> THEN 0
  ELSE 10 * digits_to_int(SubSeq(s, 1, Len(s) - 1)) + digit_value(s[Len(s)])

\* s[:n]
take(s, n) == SubSeq(s, 1, IF Len(s) < n THEN Len(s) ELSE n)

----------------------------------------------------------------------------
(* The string literals of the program                                      *)

\* src/app.py line 45 and line 157: "Informe uma URL do YouTube."
MSG_INFORME_URL ==
  <<"I","n","f","o","r","m","e"," ","u","m","a"," ","U","R","L"," ","d","o"," ","Y","o","u","T","u","b","e",".">>

\* src/app.py line 163: "URL invalida."
MSG_URL_INVALIDA ==
  <<"U","R","L"," ","i","n","v","a","l","i","d","a",".">>

\* src/app.py line 167: "A URL deve ser do dominio youtube.com ou youtu.be."
MSG_DOMINIO ==
  <<"A"," ","U","R","L"," ","d","e","v","e"," ","s","e","r"," ","d","o"," ","d","o","m","i","n","i","o"," ","y","o","u","t","u","b","e",".","c","o","m"," ","o","u"," ","y","o","u","t","u",".","b","e",".">>

\* src/app.py line 171: "Forneca uma URL valida de video do YouTube."
MSG_URL_VIDEO ==
  <<"F","o","r","n","e","c","a"," ","u","m","a"," ","U","R","L"," ","v","a","l","i","d","a"," ","d","e"," ","v","i","d","e","o"," ","d","o"," ","Y","o","u","T","u","b","e",".">>

\* src/app.py line 57: "Nao foi possivel extrair o ID do video."
MSG_SEM_ID ==
  <<"N","a","o"," ","f","o","i"," ","p","o","s","s","i","v","e","l"," ","e","x","t","r","a","i","r"," ","o"," ","I","D"," ","d","o"," ","v","i","d","e","o",".">>

\* src/app.py line 66: "YouTube Transcript API"
METHOD_API ==
  <<"Y","o","u","T","u","b","e"," ","T","r","a","n","s","c","r","i","p","t"," ","A","P","I">>

\* src/app.py line 83: "Whisper AI"
METHOD_WHISPER ==
  <<"W","h","i","s","p","e","r"," ","A","I">>

\* src/app.py line 79: "Video muito longo ("
MSG_LONGO_A ==
  <<"V","i","d","e","o"," ","m","u","i","t","o"," ","l","o","n","g","o"," ","(">>

\* src/app.py line 79: "s). Maximo: "
MSG_LONGO_B ==
  <<"s",")","."," ","M","a","x","i","m","o",":"," ">>

\* src/app.py line 79: "s"
MSG_LONGO_C ==
  <<"s">>

\* src/app.py line 87: "Erro: "
MSG_ERRO ==
  <<"E","r","r","o",":"," ">>

\* src/app.py line 94: "Transcricao concluida com sucesso! (Metodo: "
MSG_SUCESSO_A ==
  <<"T","r","a","n","s","c","r","i","c","a","o"," ","c","o","n","c","l","u","i","d","a"," ","c","o","m"," ","s","u","c","e","s","s","o","!"," ","(","M","e","t","o","d","o",":"," ">>

\* src/app.py line 94: ")"
MSG_SUCESSO_B ==
  <<")">>

\* src/app.py line 97: "Nao foi possivel obter a transcricao por nenhum metodo."
MSG_NENHUM_METODO ==
  <<"N","a","o"," ","f","o","i"," ","p","o","s","s","i","v","e","l"," ","o","b","t","e","r"," ","a"," ","t","r","a","n","s","c","r","i","c","a","o"," ","p","o","r"," ","n","e","n","h","u","m"," ","m","e","t","o","d","o",".">>

\* src/app.py line 316: "Falha em todos os metodos de download. Ultimo erro: "
MSG_FALHA_DOWNLOAD ==
  <<"F","a","l","h","a"," ","e","m"," ","t","o","d","o","s"," ","o","s"," ","m","e","t","o","d","o","s"," ","d","e"," ","d","o","w","n","l","o","a","d","."," ","U","l","t","i","m","o"," ","e","r","r","o",":"," ">>

\* src/app.py line 386: "Falha ao extrair audio: "
MSG_FALHA_EXTRAIR ==
  <<"F","a","l","h","a"," ","a","o"," ","e","x","t","r","a","i","r"," ","a","u","d","i","o",":"," ">>

\* src/app.py line 421: "Nenhuma fala detectada no audio."
MSG_SEM_FALA ==
  <<"N","e","n","h","u","m","a"," ","f","a","l","a"," ","d","e","t","e","c","t","a","d","a"," ","n","o"," ","a","u","d","i","o",".">>

\* str(None), src/app.py line 316: "None"
STR_NONE ==
  <<"N","o","n","e">>

\* src/app.py line 431: "Sign in to confirm"
SIG_SIGN_IN ==
  <<"S","i","g","n"," ","i","n"," ","t","o"," ","c","o","n","f","i","r","m">>

\* src/app.py line 431: "bot"
SIG_BOT ==
  <<"b","o","t">>

\* src/app.py line 436: "Video unavailable"
SIG_UNAVAILABLE ==
  <<"V","i","d","e","o"," ","u","n","a","v","a","i","l","a","b","l","e">>

\* src/app.py line 438: "player response"
SIG_PLAYER ==
  <<"p","l","a","y","e","r"," ","r","e","s","p","o","n","s","e">>

\* src/app.py line 443: "Requested format not available"
SIG_FORMAT ==
  <<"R","e","q","u","e","s","t","e","d"," ","f","o","r","m","a","t"," ","n","o","t"," ","a","v","a","i","l","a","b","l","e">>

\* src/app.py lines 432-435: "YouTube bloqueou a requisicao. Tente: (1) Aguardar 10-15 min, (2) Usar outra URL, (3) Upload direto do arquivo."
MSG_BLOQUEOU ==
  <<"Y","o","u","T","u","b","e"," ","b","l","o","q","u","e","o","u"," ","a"," ","r","e","q","u","i","s","i","c","a","o","."," ","T","e","n","t","e",":"," ","(","1",")"," ","A","g","u","a","r","d","a","r"," ","1","0","-","1","5"," ","m","i","n",","," ","(","2",")"," ","U","s","a","r"," ","o","u","t","r","a"," ","U","R","L",","," ","(","3",")"," ","U","p","l","o","a","d"," ","d","i","r","e","t","o"," ","d","o"," ","a","r","q","u","i","v","o",".">>

\* src/app.py line 437: "Video indisponivel, privado ou restrito por regiao."
MSG_INDISPONIVEL ==
  <<"V","i","d","e","o"," ","i","n","d","i","s","p","o","n","i","v","e","l",","," ","p","r","i","v","a","d","o"," ","o","u"," ","r","e","s","t","r","i","t","o"," ","p","o","r"," ","r","e","g","i","a","o",".">>

\* src/app.py lines 439-442: "Nao foi possivel extrair informacoes do video. O video pode ter legendas desabilitadas. Tente fazer upload do arquivo."
MSG_PLAYER ==
  <<"N","a","o"," ","f","o","i"," ","p","o","s","s","i","v","e","l"," ","e","x","t","r","a","i","r"," ","i","n","f","o","r","m","a","c","o","e","s"," ","d","o"," ","v","i","d","e","o","."," ","O"," ","v","i","d","e","o"," ","p","o","d","e"," ","t","e","r"," ","l","e","g","e","n","d","a","s"," ","d","e","s","a","b","i","l","i","t","a","d","a","s","."," ","T","e","n","t","e"," ","f","a","z","e","r"," ","u","p","l","o","a","d"," ","d","o"," ","a","r","q","u","i","v","o",".">>

\* src/app.py line 444: "Formato de video nao disponivel para download."
MSG_FORMATO ==
  <<"F","o","r","m","a","t","o"," ","d","e"," ","v","i","d","e","o"," ","n","a","o"," ","d","i","s","p","o","n","i","v","e","l"," ","p","a","r","a"," ","d","o","w","n","l","o","a","d",".">>
\* an extractor error: "ERROR: Sign in to confirm"
E_SIGN_IN ==
  <<"E","R","R","O","R",":"," ","S","i","g","n"," ","i","n"," ","t","o"," ","c","o","n","f","i","r","m">>

\* an extractor error: "robot detected"
E_ROBOT ==
  <<"r","o","b","o","t"," ","d","e","t","e","c","t","e","d">>

\* an extractor error: "Bot wall"
E_BOT_UPPER ==
  <<"B","o","t"," ","w","a","l","l">>

\* an extractor error: "Video unavailable"
E_UNAVAILABLE ==
  <<"V","i","d","e","o"," ","u","n","a","v","a","i","l","a","b","l","e">>

\* an extractor error: "Video unavailable (BOT)"
E_UNAVAILABLE_BOT ==
  <<"V","i","d","e","o"," ","u","n","a","v","a","i","l","a","b","l","e"," ","(","B","O","T",")">>

\* an extractor error: "No Player Response"
E_PLAYER ==
  <<"N","o"," ","P","l","a","y","e","r"," ","R","e","s","p","o","n","s","e">>

\* an extractor error: "Requested format not available"
E_FORMAT ==
  <<"R","e","q","u","e","s","t","e","d"," ","f","o","r","m","a","t"," ","n","o","t"," ","a","v","a","i","l","a","b","l","e">>

\* an extractor error: "Requested format not available: player response"
E_FORMAT_PLAYER ==
  <<"R","e","q","u","e","s","t","e","d"," ","f","o","r","m","a","t"," ","n","o","t"," ","a","v","a","i","l","a","b","l","e",":"," ","p","l","a","y","e","r"," ","r","e","s","p","o","n","s","e">>

\* a transport error: "HTTP Error 403"
E_HTTP ==
  <<"H","T","T","P"," ","E","r","r","o","r"," ","4","0","3">>

\* subprocess.TimeoutExpired: "timed out after 300 seconds"
E_TIMEOUT ==
  <<"t","i","m","e","d"," ","o","u","t"," ","a","f","t","e","r"," ","3","0","0"," ","s","e","c","o","n","d","s">>

\* imageio_ffmpeg.get_ffmpeg_exe: "No ffmpeg exe could be found"
E_NO_FFMPEG ==
  <<"N","o"," ","f","f","m","p","e","g"," ","e","x","e"," ","c","o","u","l","d"," ","b","e"," ","f","o","u","n","d">>

\* tempfile.mkdtemp: "No space left on device"
E_NO_SPACE ==
  <<"N","o"," ","s","p","a","c","e"," ","l","e","f","t"," ","o","n"," ","d","e","v","i","c","e">>

\* os.remove: "Permission denied"
E_NO_PERMISSION ==
  <<"P","e","r","m","i","s","s","i","o","n"," ","d","e","n","i","e","d">>

S_HTTPS ==
  <<"h","t","t","p","s",":","/","/">>

S_HTTP_UPPER ==
  <<"H","T","T","P",":","/","/">>

S_FTP ==
  <<"f","t","p",":","/","/">>

H_YOUTU_BE ==
  <<"y","o","u","t","u",".","b","e">>

H_WWW_MIXED ==
  <<"W","W","W",".","Y","o","u","T","u","b","e",".","c","o","m">>

H_EVIL ==
  <<"e","v","i","l",".","c","o","m">>

P_WATCH ==
  <<"/","w","a","t","c","h","?","v","=","d","Q","w","4","w","9","W","g","X","c","Q">>

P_SHORT_LINK ==
  <<"/","d","Q","w","4","w","9","W","g","X","c","Q">>

H_MOBILE ==
  <<"m",".","y","o","u","t","u","b","e",".","c","o","m">>

P_EMBED ==
  <<"/","e","m","b","e","d","/","d","Q","w","4","w","9","W","g","X","c","Q">>

P_SHORTS ==
  <<"/","s","h","o","r","t","s","/","d","Q","w","4","w","9","W","g","X","c","Q">>

P_WATCH_SHARED ==
  <<"/","w","a","t","c","h","?","f","e","a","t","u","r","e","=","s","h","a","r","e","&","v","=","d","Q","w","4","w","9","W","g","X","c","Q">>

P_FEED ==
  <<"/","f","e","e","d","/","s","u","b","s","c","r","i","p","t","i","o","n","s">>

P_CHANNEL ==
  <<"/","c","h","a","n","n","e","l","/","U","C","u","A","X","F","k","g","s","w","1","L","7","x","a","C","f","n","d","5","J","J","O","w">>

P_PLAYLIST ==
  <<"/","p","l","a","y","l","i","s","t","?","l","i","s","t","=","P","L","1">>

P_WATCH_VIDEOS ==
  <<"/","w","a","t","c","h","_","v","i","d","e","o","s","?","v","=","d","Q","w","4","w","9","W","g","X","c","Q">>

P_NO_ID ==
  <<"/","w","a","t","c","h","?","v","=","s","h","o","r","t">>

OUT_42 ==
  <<"4","2",".","0","0","0","0","0","0">>

OUT_600 ==
  <<"6","0","0",".","0","0","0","0","0","0">>

OUT_600_5 ==
  <<"6","0","0",".","5","0","0","0","0","0">>

OUT_900 ==
  <<"9","0","0",".","0","0","0","0","0","0">>

T_BLANK ==
  <<" ">>

T_HI ==
  <<"h","i">>

T_OK_PADDED ==
  <<" ","o","k"," ">>

T_A_LEFT ==
  <<" ","a">>

T_B_RIGHT ==
  <<"b"," ">>

----------------------------------------------------------------------------
(* Reference validation                                                    *)

\* ALLOWED_HOSTS
ALLOWED_HOSTS ==
  { <<"y","o","u","t","u","b","e",".","c","o","m">>,
    <<"w","w","w",".","y","o","u","t","u","b","e",".","c","o","m">>,
    <<"y","o","u","t","u",".","b","e">>,
    <<"m",".","y","o","u","t","u","b","e",".","c","o","m">> }

\* the class [0-9A-Za-z_-]
IdChars ==
  {UPPERCASE[i] : i \in DOMAIN UPPERCASE} \cup {LOWERCASE[i] : i \in DOMAIN LOWERCASE}
    \cup {DIGITS[i] : i \in DOMAIN DIGITS} \cup {"_", "-"}

\* the repetition {11} of the patterns
ID_LEN == 11

\* ([0-9A-Za-z_-]{11}) matches in s at position i
IsIdRun(s, i) ==
  /\ i + ID_LEN - 1 <= Len(s)
  /\ \A k \in i..(i + ID_LEN - 1) : s[k] \in IdChars

\* The four patterns, each the alternatives of its literal prefix, in order;
\* every pattern continues with the group ([0-9A-Za-z_-]{11}).
patterns ==
  << << <<"v","=">>, <<"/">> >>,
     << <<"y","o","u","t","u",".","b","e","/">> >>,
     << <<"e","m","b","e","d","/">> >>,
     << <<"s","h","o","r","t","s","/">> >> >>

\* the alternative of the pattern that matches in url at position i (0: none)
alt_at(alts, url, i) ==
  LET ok == {a \in DOMAIN alts :
               MatchAt(url, i, alts[a]) /\ IsIdRun(url, i + Len(alts[a]))}
  IN IF ok = {} THEN 0 ELSE CHOOSE a \in ok : \A b \in ok : a <= b

\* re.search(pattern, url).group(1): the leftmost match (Optional)
re_search(alts, url) ==
  LET hits == {i \in 1..Len(url) : alt_at(alts, url, i) # 0}
  IN IF hits = {} THEN None
     ELSE LET i == CHOOSE h \in hits : \A g \in hits : h <= g
              a == alt_at(alts, url, i)
              from == i + Len(alts[a])
          IN Some(SubSeq(url, from, from + ID_LEN - 1))

\* extract_video_id(url): the first pattern that matches decides (Optional)
extract_video_id(url) ==
  LET ok == {p \in DOMAIN patterns : re_search(patterns[p], url) # None}
  IN IF ok = {} THEN None
     ELSE re_search(patterns[CHOOSE p \in ok : \A q \in ok : p <= q], url)

\* the length of the prefix that ^https?:// matches in url, ignoring case (0: none)
scheme_len(url) ==
  LET l == lower(url)
  IN IF MatchAt(l, 1, <<"h","t","t","p","s",":","/","/">>) THEN 8
     ELSE IF MatchAt(l, 1, <<"h","t","t","p",":","/","/">>) THEN 7
     ELSE 0

\* group 1 of ^https?://([^/]+)(/.*)?$ : what follows the scheme, up to the first "/"
url_host(url) ==
  LET from == scheme_len(url) + 1
      slashes == {i \in from..Len(url) : url[i] = "/"}
      to == IF slashes = {} THEN Len(url)
            ELSE (CHOOSE i \in slashes : \A j \in slashes : i <= j) - 1
  IN SubSeq(url, from, to)

\* a variant of validate_youtube_url_or_raise without the test of the host
validate_youtube_url_or_raise_any_host(url) ==
  IF url = <<>> THEN Some(MSG_INFORME_URL)
  ELSE IF scheme_len(url) = 0 \/ url_host(url) = <<>> THEN Some(MSG_URL_INVALIDA)
  ELSE IF extract_video_id(url) = None THEN Some(MSG_URL_VIDEO)
  ELSE None

\* validate_youtube_url_or_raise(url): the message of the ValueError raised (Optional)
validate_youtube_url_or_raise(url) ==
  IF url = <<>> THEN Some(MSG_INFORME_URL)
  ELSE IF scheme_len(url) = 0 \/ url_host(url) = <<>> THEN Some(MSG_URL_INVALIDA)
  ELSE IF lower(url_host(url)) \notin ALLOWED_HOSTS THEN Some(MSG_DOMINIO)
  ELSE IF extract_video_id(url) = None THEN Some(MSG_URL_VIDEO)
  ELSE None

----------------------------------------------------------------------------
(* Error classifier                                                        *)

\* a variant of format_error_message that tests "Video unavailable" first
format_error_message_reordered(error) ==
  IF contains(SIG_UNAVAILABLE, error) THEN MSG_INDISPONIVEL
  ELSE IF contains(SIG_SIGN_IN, error) \/ contains(SIG_BOT, lower(error)) THEN MSG_BLOQUEOU
  ELSE IF contains(SIG_PLAYER, lower(error)) THEN MSG_PLAYER
  ELSE IF contains(SIG_FORMAT, error) THEN MSG_FORMATO
  ELSE error

\* format_error_message(error)
format_error_message(error) ==
  IF contains(SIG_SIGN_IN, error) \/ contains(SIG_BOT, lower(error)) THEN MSG_BLOQUEOU
  ELSE IF contains(SIG_UNAVAILABLE, error) THEN MSG_INDISPONIVEL
  ELSE IF contains(SIG_PLAYER, lower(error)) THEN MSG_PLAYER
  ELSE IF contains(SIG_FORMAT, error) THEN MSG_FORMATO
  ELSE error

----------------------------------------------------------------------------
(* The disk: a set of paths.  A path is a directory, a file stem and an    *)
(* extension (os.path.splitext); the directory itself has neither.         *)

DirPath(d) == [dir |-> d, stem |-> "", ext |-> ""]
FilePath(d, stem, ext) == [dir |-> d, stem |-> stem, ext |-> ext]

\* os.path.isdir(path)
isdir(p, d) == p \in d /\ p.stem = "" /\ p.ext = ""

\* os.path.isfile(path)
isfile(p, d) == p \in d /\ ~(p.stem = "" /\ p.ext = "")

\* a variant of rmtree that removes only an empty directory (os.rmdir)
rmtree_only_empty(p, d) == IF \E q \in d : q.dir = p.dir /\ q # p THEN d ELSE d \ {p}

\* os.remove(path), os.rmdir(path): whether the call raises OSError; faults holds
\* the extensions of the paths the filesystem refuses to remove ("": a directory)
remove_fails(p) == p.ext \in faults

\* shutil.rmtree(path, ignore_errors=True): what can be removed is removed, the
\* directory goes when nothing is left in it
rmtree(p, d) ==
  LET kept == {q \in d : q.dir = p.dir /\ q # p /\ remove_fails(q)}
      rest == {q \in d : q.dir # p.dir}
  IN IF kept # {} \/ remove_fails(p) THEN rest \cup kept \cup {p} ELSE rest

\* cleanup_files(paths): the disk afterwards; paths is a list of Optional paths
RECURSIVE cleanup_files(_, _)
cleanup_files(paths, d) ==
  IF paths = <<>> THEN d
  ELSE LET path == Head(paths)
           d1 == IF path = None THEN d
                 ELSE IF isfile(path[1], d)
                      THEN IF remove_fails(path[1]) THEN d ELSE d \ {path[1]}
                 ELSE IF isdir(path[1], d) THEN rmtree(path[1], d)
                 ELSE d
       IN cleanup_files(Tail(paths), d1)

\* a variant of cleanup_error for a loop without its except clause: the OSError
\* of os.remove leaves cleanup_files
cleanup_error_raised(paths, d) ==
  IF \E i \in 1..Len(paths) :
       paths[i] # None /\ isfile(paths[i][1], d) /\ remove_fails(paths[i][1])
  THEN Some(E_NO_PERMISSION)
  ELSE None

\* cleanup_files, except OSError: pass: the exception that leaves the call
cleanup_error(paths, d) == None

\* a finally block that calls cleanup_files(paths) on the disk d: the exception
\* in flight after it, raised being the one in flight before it
after_finally(raised, paths, d) ==
  IF cleanup_error(paths, d) # None THEN cleanup_error(paths, d) ELSE raised

\* find_downloaded_file: audio_extensions
audio_extensions == {".m4a", ".mp3", ".opus", ".webm", ".ogg", ".wav"}

\* find_downloaded_file(directory): os.listdir gives the names in no stated order,
\* so the first name with an audio extension can be any of them: the set of the
\* paths the call can return (empty: it returns None)
find_downloaded_file(directory, d) ==
  {q \in d : q.dir = directory /\ isfile(q, d) /\ q.ext \in audio_extensions}

\* extract_wav_with_bundled_ffmpeg: wav_path
wav_path_of(p) == [dir |-> p.dir, stem |-> p.stem \o "_audio", ext |-> ".wav"]

----------------------------------------------------------------------------
(* Tier 1, the duration probe and tier 3 as functions of what the external *)
(* call answered                                                           *)

\* a variant of get_transcript_from_api that returns the joined text unstripped
get_transcript_from_api_unstripped(out) ==
  IF out.raised THEN None
  ELSE LET full_text == join(<<" ">>, out.cues)
       IN IF strip(full_text) # <<>> THEN Some(full_text) ELSE None

\* get_transcript_from_api(video_id), the caption API having raised or
\* returned the cues (Optional)
get_transcript_from_api(out) ==
  IF out.raised THEN None
  ELSE LET full_text == join(<<" ">>, out.cues)
       IN IF strip(full_text) # <<>> THEN Some(strip(full_text)) ELSE None

\* the truth value of an Optional string: neither None nor ""
truthy(t) == t # None /\ t[1] # <<>>

RECURSIVE pow10(_)
pow10(n) == IF n = 0 THEN 1 ELSE 10 * pow10(n - 1)

\* float(s) of digits with at most six decimals: defined, and its value in
\* microseconds
dot_at(s) == {i \in 1..Len(s) : s[i] = "."}

is_float(s) ==
  \/ is_digits(s)
  \/ /\ Cardinality(dot_at(s)) = 1
     /\ LET i == CHOOSE j \in dot_at(s) : TRUE
        IN /\ is_digits(SubSeq(s, 1, i - 1))
           /\ is_digits(SubSeq(s, i + 1, Len(s)))
           /\ Len(s) - i <= 6

to_float(s) ==
  IF is_digits(s) THEN digits_to_int(s) * pow10(6)
  ELSE LET i == CHOOSE j \in dot_at(s) : TRUE
       IN digits_to_int(SubSeq(s, 1, i - 1)) * pow10(6)
          + digits_to_int(SubSeq(s, i + 1, Len(s))) * pow10(6 - (Len(s) - i))

\* get_audio_duration(file_path), the probe having raised (or timed out) or
\* printed stdout; microseconds
get_audio_duration(out) ==
  IF out.raised THEN 0
  ELSE LET duration_str == strip(out.stdout)
       IN IF duration_str = <<>> THEN 0
          ELSE IF is_float(duration_str) THEN to_float(duration_str)
          ELSE 0

\* MAX_VIDEO_DURATION, seconds
MAX_VIDEO_DURATION == 600

\* a variant of too_long that also refuses the limit itself
too_long_inclusive(d) == d >= MAX_VIDEO_DURATION * pow10(6)

\* a variant of too_long that compares the whole seconds, int(duration)
too_long_whole_seconds(d) == d \div pow10(6) > MAX_VIDEO_DURATION

\* duration > MAX_VIDEO_DURATION
too_long(d) == d > MAX_VIDEO_DURATION * pow10(6)

\* the message of the ValueError of the duration guard
too_long_message(d) ==
  MSG_LONGO_A \o int_to_str(d \div pow10(6)) \o MSG_LONGO_B
    \o int_to_str(MAX_VIDEO_DURATION) \o MSG_LONGO_C

\* a variant of text_parts that keeps the empty segments
text_parts_unfiltered(segments) == [i \in 1..Len(segments) |-> strip(segments[i])]

\* transcribe_with_whisper_local: text_parts
text_parts(segments) ==
  SelectSeq([i \in 1..Len(segments) |-> strip(segments[i])], LAMBDA t : t # <<>>)

\* a variant of whisper_result without the text returned when no speech is found
whisper_result_joined(segments) == join(<<" ">>, text_parts(segments))

\* transcribe_with_whisper_local: the value returned for the segments emitted
whisper_result(segments) ==
  IF text_parts(segments) = <<>> THEN MSG_SEM_FALA
  ELSE join(<<" ">>, text_parts(segments))

\* the stderr[:200] of extract_wav_with_bundled_ffmpeg
STDERR_MAX == 200

\* the message of the RuntimeError of extract_wav_with_bundled_ffmpeg
extract_failure_message(stderr) == MSG_FALHA_EXTRAIR \o take(stderr, STDERR_MAX)

\* the message of the RuntimeError of download_youtube_audio_with_fallbacks
exhausted_message(err) ==
  MSG_FALHA_DOWNLOAD \o (IF err = None THEN STR_NONE ELSE err[1])

\* a variant of player_configs that lists android a second time
player_configs_repeated == <<"android", "ios", "web_embed", "android_web", "android">>

\* a variant of player_configs with ios and web_embed exchanged
player_configs_exchanged == <<"android", "web_embed", "ios", "android_web">>

\* download_youtube_audio_with_fallbacks: player_configs, by name
player_configs == <<"android", "ios", "web_embed", "android_web">>

----------------------------------------------------------------------------
(* The responses of transcribe                                             *)

Flash(category, message) == [category |-> category, message |-> message]
Redirect == [kind |-> "redirect", transcript |-> None]
Render(text) == [kind |-> "render", transcript |-> text]
\* the answer of the framework to an exception that leaves the view
ServerError == [kind |-> "error500", transcript |-> None]

\* transcribe, finally: cleanup_files([file_path]) on the disk d, then the
\* return that was pending
finally_response(pending, path, d) ==
  IF after_finally(None, <<path>>, d) = None THEN pending ELSE ServerError

\* a variant of except_flashes for an except block without its return: the
\* request goes on to the end of transcribe with no transcript
except_flashes_no_return(exc) ==
  <<Flash("error", MSG_ERRO \o format_error_message(exc)),
    Flash("error", MSG_NENHUM_METODO)>>

\* transcribe, the except block: what it flashes
except_flashes(exc) == <<Flash("error", MSG_ERRO \o format_error_message(exc))>>

\* transcribe, after the tiers: what it flashes
final_flashes(text, method) ==
  IF truthy(text)
  THEN <<Flash("success", MSG_SUCESSO_A \o method[1] \o MSG_SUCESSO_B)>>
  ELSE <<Flash("error", MSG_NENHUM_METODO)>>

\* transcribe, after the tiers: what it returns
final_response(text) == IF truthy(text) THEN Render(text) ELSE Redirect

----------------------------------------------------------------------------
(* The /upload route: what it checks before it saves the file               *)

\* src/app.py line 104: "Nenhum arquivo enviado."
MSG_NENHUM_ARQUIVO ==
  <<"N","e","n","h","u","m"," ","a","r","q","u","i","v","o"," ","e","n","v","i","a","d","o",".">>

\* src/app.py line 110: "Arquivo invalido."
MSG_ARQUIVO_INVALIDO ==
  <<"A","r","q","u","i","v","o"," ","i","n","v","a","l","i","d","o",".">>

\* src/app.py line 118: "Formato nao suportado. Use: "
MSG_FORMATO_USE ==
  <<"F","o","r","m","a","t","o"," ","n","a","o"," ","s","u","p","o","r","t","a","d","o","."," ","U","s","e",":"," ">>

\* src/app.py line 135: "Arquivo muito grande ("
MSG_GRANDE_A ==
  <<"A","r","q","u","i","v","o"," ","m","u","i","t","o"," ","g","r","a","n","d","e"," ","(">>

\* src/app.py line 135: "MB). Maximo: "
MSG_GRANDE_B ==
  <<"M","B",")","."," ","M","a","x","i","m","o",":"," ">>

\* src/app.py line 136: "MB"
MSG_GRANDE_C ==
  <<"M","B">>

\* src/app.py line 141: "Transcricao concluida com sucesso!"
MSG_UPLOAD_SUCESSO ==
  <<"T","r","a","n","s","c","r","i","c","a","o"," ","c","o","n","c","l","u","i","d","a"," ","c","o","m"," ","s","u","c","e","s","s","o","!">>

\* src/app.py line 118: ", "
SEP_COMMA ==
  <<","," ">>

\* file names a client can send
F_CLIP_MP3 ==
  <<"c","l","i","p",".","m","p","3">>

F_TALK_WAV_UPPER ==
  <<"t","a","l","k",".","W","A","V">>

F_NOTES_TXT ==
  <<"n","o","t","e","s",".","t","x","t">>

F_DOT_MP3 ==
  <<".","m","p","3">>

F_DIR_DOT ==
  <<"a",".","b","/","m","p","3">>

MAX_VIDEO_SIZE_MB == 100

\* upload: allowed_extensions, each with its characters
allowed_extensions == {".mp4", ".mp3", ".wav", ".m4a", ".webm", ".ogg"}
ext_chars(e) ==
  CASE e = ".mp4" -> <<".","m","p","4">>
    [] e = ".mp3" -> <<".","m","p","3">>
    [] e = ".wav" -> <<".","w","a","v">>
    [] e = ".m4a" -> <<".","m","4","a">>
    [] e = ".webm" -> <<".","w","e","b","m">>
    [] e = ".ogg" -> <<".","o","g","g">>

\* the greatest position of the character c in s, 0 when there is none
rfind(s, c) ==
  LET at == {i \in 1..Len(s) : s[i] = c}
  IN IF at = {} THEN 0 ELSE CHOOSE i \in at : \A j \in at : j <= i

\* os.path.splitext(name)[1]: from the last dot of the last component on,
\* unless only dots stand before it in that component
splitext_ext(name) ==
  LET sep == rfind(name, "/")
      dot == rfind(name, ".")
  IN IF dot > sep /\ \E i \in (sep + 1)..(dot - 1) : name[i] # "."
     THEN SubSeq(name, dot, Len(name))
     ELSE <<>>

\* upload: file_ext
file_ext_of(name) == lower(splitext_ext(name))

\* upload: the orders in which ', '.join(allowed_extensions) can list the set
ExtOrders ==
  { <<".mp4", ".mp3", ".wav", ".m4a", ".webm", ".ogg">>,
    <<".ogg", ".webm", ".m4a", ".wav", ".mp3", ".mp4">> }

\* upload, the checks before the try block: the messages it can reject the
\* request with (none: the file is accepted); f is the Optional file part
upload_rejections(f) ==
  IF f = None THEN {MSG_NENHUM_ARQUIVO}
  ELSE IF f[1].filename = <<>> THEN {MSG_ARQUIVO_INVALIDO}
  ELSE IF \A e \in allowed_extensions : ext_chars(e) # file_ext_of(f[1].filename)
  THEN {MSG_FORMATO_USE \o join(SEP_COMMA, [i \in 1..Len(o) |-> ext_chars(o[i])]) :
          o \in ExtOrders}
  ELSE {}

\* uuid.uuid4().hex: a name that no other call is given
upload_name(r) == <<"upload_1", "upload_2">>[r]

\* upload: temp_path
temp_path_of(r, name) ==
  FilePath("tmp", upload_name(r),
           CHOOSE e \in allowed_extensions : ext_chars(e) = file_ext_of(name))

\* upload: file_size_mb > MAX_VIDEO_SIZE_MB, the size in bytes
too_large(size) == size > MAX_VIDEO_SIZE_MB * 1024 * 1024

\* the message of the ValueError of the size guard, the size to one decimal
too_large_message(size) ==
  LET tenths == (size * 10 + 512 * 1024) \div (1024 * 1024)
  IN MSG_GRANDE_A \o int_to_str(tenths \div 10) \o <<".">> \o int_to_str(tenths % 10)
       \o MSG_GRANDE_B \o int_to_str(MAX_VIDEO_SIZE_MB) \o MSG_GRANDE_C

\* upload, the except block: what it flashes
upload_except_flashes(exc) == <<Flash("error", MSG_ERRO \o exc)>>

----------------------------------------------------------------------------
(* What the request is given and what the external collaborators answer    *)

\* the longest list of caption cues and of recognized segments
MaxCues == 2
MaxSegments == 2

SeqsUpTo(S, n) == UNION {[1..k -> S] : k \in 0..n}

Schemes == {S_HTTPS, S_FTP, <<>>}
Hosts == {H_WWW_MIXED, H_EVIL, <<>>}
Paths == {P_WATCH, P_NO_ID, <<>>}

\* the raw inputs: scheme, host and path in every combination, a blank input,
\* and a padded short link with an upper-case scheme
Inputs ==
  {s \o h \o p : s \in Schemes, h \in Hosts, p \in Paths}
    \cup { T_BLANK,
           T_BLANK \o S_HTTP_UPPER \o H_YOUTU_BE \o P_SHORT_LINK \o T_BLANK }

\* YouTubeTranscriptApi.get_transcript: raises, or returns the cues
CueTexts == {T_BLANK, T_HI, T_OK_PADDED}
CaptionOutcomes ==
  {[raised |-> TRUE, cues |-> <<>>]}
    \cup {[raised |-> FALSE, cues |-> c] : c \in SeqsUpTo(CueTexts, MaxCues)}

\* ydl.extract_info: raises with a message, or returns
StrategyErrors ==
  {E_SIGN_IN, E_ROBOT, E_BOT_UPPER, E_UNAVAILABLE, E_UNAVAILABLE_BOT, E_PLAYER,
   E_FORMAT, E_FORMAT_PLAYER, E_HTTP, <<>>}
StrategyOutcomes ==
  {[raised |-> FALSE, err |-> <<>>]}
    \cup {[raised |-> TRUE, err |-> e] : e \in StrategyErrors}

\* the files a download attempt can leave in the scratch directory under the
\* template audio_<unique>.%(ext)s: two audio files and a partial download
CandFiles(dir) ==
  { FilePath(dir.dir, "audio_u", ".m4a"),
    FilePath(dir.dir, "audio_u", ".webm"),
    FilePath(dir.dir, "audio_u.m4a", ".part") }

\* ffprobe: no executable, raises or times out, or prints stdout
ProbeStdouts == {<<>>, OUT_42, OUT_600, OUT_600_5, OUT_900}
ProbeOutcomes ==
  { [exe |-> FALSE, raised |-> FALSE, stdout |-> <<>>],
    [exe |-> TRUE, raised |-> TRUE, stdout |-> <<>>] }
    \cup {[exe |-> TRUE, raised |-> FALSE, stdout |-> s] : s \in ProbeStdouts}

\* ffmpeg: times out, or exits with a status and a stderr; it may have written
\* the output file in each case
NormalizeErrors == {E_HTTP, E_ROBOT}
NormalizeOutcomes ==
  {[timeout |-> TRUE, rc_ok |-> FALSE, wrote |-> w, stderr |-> <<>>] : w \in BOOLEAN}
    \cup {[timeout |-> FALSE, rc_ok |-> FALSE, wrote |-> w, stderr |-> e] :
            w \in BOOLEAN, e \in NormalizeErrors}
    \cup {[timeout |-> FALSE, rc_ok |-> TRUE, wrote |-> w, stderr |-> <<>>] : w \in BOOLEAN}

\* WhisperModel / model.transcribe: raises with a message, or emits the segments
SegmentTexts == {T_BLANK, T_A_LEFT, T_B_RIGHT}
RecognizeErrors == {E_HTTP, E_PLAYER}
RecognizeOutcomes ==
  {[raised |-> TRUE, err |-> e, segments |-> <<>>] : e \in RecognizeErrors}
    \cup {[raised |-> FALSE, err |-> <<>>, segments |-> s] :
            s \in SeqsUpTo(SegmentTexts, MaxSegments)}

\* an external call in the history: which, and whether it raised
Call(op, raised) == [op |-> op, raised |-> raised]

----------------------------------------------------------------------------
(* The request                                                             *)

\* nothing has been answered yet
NoAnswers ==
  [captions |-> None, attempt |-> None, probe |-> None, normalize |-> None,
   recognize |-> None, exc |-> None]

\* the registers of a request that has not started
Fresh ==
  /\ pc = "start"
  /\ input_url = <<>>
  /\ video_id = None
  /\ transcript_text = None
  /\ method_used = None
  /\ temp_dir = None
  /\ idx = 0
  /\ last_error = None
  /\ file_path = None
  /\ duration = 0
  /\ wav_path = None
  /\ disk = {}
  /\ flashes = <<>>
  /\ response = None
  /\ calls = <<>>
  /\ env = NoAnswers

\* one /transcribe request on a filesystem that removes what it is asked to
Init ==
  /\ Fresh
  /\ form \in Inputs
  /\ route = "transcribe"
  /\ upload_file = None
  /\ rid = 1
  /\ faults = {}
  /\ others = <<>>

\* the extensions a filesystem can refuse to remove: the normalized audio, the
\* downloaded audio, or everything of the request
FaultSets ==
  { {".wav"}, {".m4a", ".webm"}, {".wav", ".m4a", ".webm", ".part", ""} }

\* one /transcribe request for an accepted URL on a filesystem that refuses
\* some removals
InitFault ==
  /\ Fresh
  /\ form = S_HTTPS \o H_WWW_MIXED \o P_WATCH
  /\ route = "transcribe"
  /\ upload_file = None
  /\ rid = 1
  /\ faults \in FaultSets
  /\ others = <<>>

\* transcribe, the validation: the message it rejects the stripped input with (Optional)
rejection(url) ==
  IF url = <<>> THEN Some(MSG_INFORME_URL)
  ELSE IF validate_youtube_url_or_raise(url) # None THEN validate_youtube_url_or_raise(url)
  ELSE IF extract_video_id(url) = None THEN Some(MSG_SEM_ID)
  ELSE None

\* transcribe: strip the input, validate it, extract the id
Validate ==
  /\ pc = "start"
  /\ route = "transcribe"
  /\ LET url == strip(form)
     IN /\ input_url' = url
        /\ IF rejection(url) # None
           THEN /\ flashes' = Append(flashes, Flash("error", rejection(url)[1]))
                /\ response' = Some(Redirect)
                /\ pc' = "done"
                /\ video_id' = video_id
           ELSE /\ video_id' = extract_video_id(url)
                /\ pc' = "tier1"
                /\ UNCHANGED <<flashes, response>>
  /\ UNCHANGED <<fixed, form, transcript_text, method_used, temp_dir, idx, last_error,
                 file_path, duration, wav_path, disk, calls, env>>

\* upload, up to the call of transcribe_with_whisper_local
Upload ==
  /\ pc = "start"
  /\ route = "upload"
  /\ IF upload_rejections(upload_file) # {}
     THEN /\ \E message \in upload_rejections(upload_file) :
               flashes' = Append(flashes, Flash("error", message))
          /\ response' = Some(Redirect)
          /\ pc' = "done"
          /\ UNCHANGED <<file_path, disk, env>>
     ELSE LET temp_path == temp_path_of(rid, upload_file[1].filename)
              d1 == disk \cup {temp_path}
              exc == too_large_message(upload_file[1].size)
          IN /\ file_path' = Some(temp_path)
             /\ IF too_large(upload_file[1].size)
                THEN /\ env' = [env EXCEPT !.exc = Some(exc)]
                     /\ flashes' = flashes \o upload_except_flashes(exc)
                     /\ response' = Some(finally_response(Redirect, Some(temp_path), d1))
                     /\ disk' = cleanup_files(<<Some(temp_path)>>, d1)
                     /\ pc' = "done"
                ELSE /\ disk' = d1
                     /\ pc' = "normalize"
                     /\ UNCHANGED <<flashes, response, env>>
  /\ UNCHANGED <<fixed, form, input_url, video_id, transcript_text, method_used, temp_dir,
                 idx, last_error, duration, wav_path, calls>>

\* transcribe and upload, the except and finally blocks around the tiers, entered
\* with the message of the exception, the disk d at that moment and the history e
Except(exc, d, e) ==
  /\ env' = [e EXCEPT !.exc = Some(exc)]
  /\ flashes' = flashes \o (IF route = "upload" THEN upload_except_flashes(exc)
                             ELSE except_flashes(exc))
  /\ response' = Some(finally_response(Redirect, file_path, d))
  /\ disk' = cleanup_files(<<file_path>>, d)
  /\ pc' = "done"

\* a variant of skip_tier2 that never enters tier 2
skip_tier2_always(text) == TRUE

\* transcribe: tier 2 is entered only "if not transcript_text"
skip_tier2(text) == truthy(text)

\* transcribe, tier 1: get_transcript_from_api; with a transcript the request ends
Tier1 ==
  /\ pc = "tier1"
  /\ \E out \in CaptionOutcomes :
       LET text == get_transcript_from_api(out)
       IN /\ calls' = Append(calls, Call("captions", out.raised))
          /\ env' = [env EXCEPT !.captions = Some(out)]
          /\ transcript_text' = text
          /\ method_used' = Some(METHOD_API)
          /\ IF skip_tier2(text)
             THEN /\ flashes' = flashes \o final_flashes(text, Some(METHOD_API))
                  /\ response' = Some(final_response(text))
                  /\ pc' = "done"
             ELSE /\ pc' = "mkdtemp"
                  /\ UNCHANGED <<flashes, response>>
  /\ UNCHANGED <<fixed, form, input_url, video_id, temp_dir, idx, last_error, file_path,
                 duration, wav_path, disk>>

\* a variant of mkdtemp that gives every call the same directory
mkdtemp_shared(r) == DirPath("yt_audio_1")

\* tempfile.mkdtemp(prefix="yt_audio_"): a directory that no other call is given
mkdtemp(r) == DirPath(<<"yt_audio_1", "yt_audio_2">>[r])

\* download_youtube_audio_with_fallbacks: tempfile.mkdtemp
Mkdtemp ==
  /\ pc = "mkdtemp"
  /\ calls' = Append(calls, Call("mkdtemp", FALSE))
  /\ temp_dir' = Some(mkdtemp(rid))
  /\ disk' = disk \cup {mkdtemp(rid)}
  /\ idx' = 1
  /\ last_error' = None
  /\ pc' = "strategy"
  /\ UNCHANGED <<fixed, form, input_url, video_id, transcript_text, method_used, file_path,
                 duration, wav_path, flashes, response, env>>

\* download_youtube_audio_with_fallbacks: tempfile.mkdtemp raises
MkdtempFails ==
  /\ pc = "mkdtemp"
  /\ calls' = Append(calls, Call("mkdtemp", TRUE))
  /\ Except(E_NO_SPACE, disk, env)
  /\ UNCHANGED <<fixed, form, input_url, video_id, transcript_text, method_used, temp_dir,
                 idx, last_error, file_path, duration, wav_path>>

\* the latest download attempt in the history: whether it raised, with which
\* message, and whether the file returned after it is one that it wrote
Attempt(out, fresh) == [raised |-> out.raised, err |-> out.err, fresh |-> fresh]

\* download_youtube_audio_with_fallbacks: one pass of the loop over player_configs
TryStrategy ==
  /\ pc = "strategy"
  /\ \E wrote \in SUBSET CandFiles(temp_dir[1]), out \in StrategyOutcomes :
       LET d1 == disk \cup wrote
           audio == find_downloaded_file(temp_dir[1].dir, d1)
           found == IF out.raised THEN {} ELSE audio
       IN /\ calls' = Append(calls, Call(player_configs[idx], out.raised))
          /\ disk' = d1
          /\ IF found # {}
             THEN /\ \E downloaded_file \in found :
                       /\ file_path' = Some(downloaded_file)
                       /\ env' = [env EXCEPT !.attempt =
                                    Some(Attempt(out, downloaded_file \in wrote))]
                  /\ pc' = "probe"
                  /\ idx' = 0
                  /\ last_error' = None
             ELSE /\ file_path' = file_path
                  /\ env' = [env EXCEPT !.attempt = Some(Attempt(out, FALSE))]
                  /\ last_error' = IF out.raised THEN Some(out.err) ELSE last_error
                  /\ IF idx < Len(player_configs)
                     THEN idx' = idx + 1 /\ pc' = pc
                     ELSE idx' = idx /\ pc' = "exhausted"
  /\ UNCHANGED <<fixed, form, input_url, video_id, transcript_text, method_used, temp_dir,
                 duration, wav_path, flashes, response>>

\* download_youtube_audio_with_fallbacks: every strategy failed
Exhausted ==
  /\ pc = "exhausted"
  /\ Except(exhausted_message(last_error), cleanup_files(<<temp_dir>>, disk), env)
  /\ UNCHANGED <<fixed, form, input_url, video_id, transcript_text, method_used, temp_dir,
                 idx, last_error, file_path, duration, wav_path, calls>>

\* transcribe: get_audio_duration and the duration guard
Probe ==
  /\ pc = "probe"
  /\ \E out \in ProbeOutcomes :
       LET e == [env EXCEPT !.probe = Some(out)]
       IN /\ calls' = Append(calls, Call("ffprobe", out.raised \/ ~out.exe))
          /\ IF ~out.exe
             THEN /\ duration' = duration
                  /\ Except(E_NO_FFMPEG, disk, e)
             ELSE /\ duration' = get_audio_duration(out)
                  /\ IF too_long(get_audio_duration(out))
                     THEN Except(too_long_message(get_audio_duration(out)), disk, e)
                     ELSE /\ pc' = "normalize"
                          /\ env' = e
                          /\ UNCHANGED <<flashes, response, disk>>
  /\ UNCHANGED <<fixed, form, input_url, video_id, transcript_text, method_used, temp_dir,
                 idx, last_error, file_path, wav_path>>

\* transcribe_with_whisper_local: extract_wav_with_bundled_ffmpeg
Normalize ==
  /\ pc = "normalize"
  /\ \E out \in NormalizeOutcomes :
       LET wav == wav_path_of(file_path[1])
           d1 == IF out.wrote THEN disk \cup {wav} ELSE disk
           e == [env EXCEPT !.normalize = Some(out)]
           failed == out.timeout \/ ~out.rc_ok \/ ~isfile(wav, d1)
       IN /\ calls' = Append(calls, Call("ffmpeg", failed))
          /\ IF failed
             THEN \* wav_path is still None in the finally of transcribe_with_whisper_local
                  /\ wav_path' = wav_path
                  /\ Except(IF out.timeout THEN E_TIMEOUT
                            ELSE extract_failure_message(out.stderr),
                            cleanup_files(<<wav_path>>, d1), e)
             ELSE /\ wav_path' = Some(wav)
                  /\ disk' = d1
                  /\ env' = e
                  /\ pc' = "recognize"
                  /\ UNCHANGED <<flashes, response>>
  /\ UNCHANGED <<fixed, form, input_url, video_id, transcript_text, method_used, temp_dir,
                 idx, last_error, file_path, duration>>

\* transcribe_with_whisper_local: the model, the inference and the join; then
\* the end of transcribe or of upload
Recognize ==
  /\ pc = "recognize"
  /\ \E out \in RecognizeOutcomes :
       LET e == [env EXCEPT !.recognize = Some(out)]
           d1 == cleanup_files(<<wav_path>>, disk)
           text == Some(whisper_result(out.segments))
           raised == after_finally(IF out.raised THEN Some(out.err) ELSE None,
                                   <<wav_path>>, disk)
       IN /\ calls' = Append(calls, Call("whisper", out.raised))
          /\ IF raised # None
             THEN /\ Except(raised[1], d1, e)
                  /\ UNCHANGED <<transcript_text, method_used>>
             ELSE /\ transcript_text' = text
                  /\ disk' = cleanup_files(<<file_path>>, d1)
                  /\ IF route = "upload"
                     THEN /\ method_used' = method_used
                          /\ flashes' = Append(flashes, Flash("success", MSG_UPLOAD_SUCESSO))
                          /\ response' = Some(finally_response(Render(text), file_path, d1))
                     ELSE /\ method_used' = Some(METHOD_WHISPER)
                          /\ flashes' = flashes \o final_flashes(text, Some(METHOD_WHISPER))
                          /\ response' =
                               Some(finally_response(final_response(text), file_path, d1))
                  /\ env' = e
                  /\ pc' = "done"
  /\ UNCHANGED <<fixed, form, input_url, video_id, temp_dir, idx, last_error, file_path,
                 duration, wav_path>>

Next ==
  \/ Validate
  \/ Tier1
  \/ Mkdtemp
  \/ MkdtempFails
  \/ TryStrategy
  \/ Exhausted
  \/ Probe
  \/ Normalize
  \/ Recognize

Spec == Init /\ [][Next]_vars

SpecFault == InitFault /\ [][Next]_vars

\* the inputs of the validation alone: both schemes, the hosts, the paths with
\* an id at each position and without one, bare or padded
ExtractInputs ==
  {b \o s \o h \o p \o b :
     b \in {<<>>, T_BLANK},
     s \in {S_HTTPS, S_HTTP_UPPER},
     h \in {H_WWW_MIXED, H_YOUTU_BE, H_MOBILE, H_EVIL},
     p \in {P_WATCH, P_WATCH_SHARED, P_SHORT_LINK, P_EMBED, P_SHORTS, P_FEED,
            P_CHANNEL, P_PLAYLIST, P_WATCH_VIDEOS, P_NO_ID, <<>>}}

\* one /transcribe request up to the end of its validation
InitExtract ==
  /\ Fresh
  /\ form \in ExtractInputs
  /\ route = "transcribe"
  /\ upload_file = None
  /\ rid = 1
  /\ faults = {}
  /\ others = <<>>

SpecExtract == InitExtract /\ [][Validate]_vars

\* the positions of a request
Positions ==
  {"start", "tier1", "mkdtemp", "strategy", "exhausted", "probe", "normalize",
   "recognize", "done"}

\* the handler moves on: every action of Next changes pc or idx, and one of
\* them can be taken at every position but the last
Advance ==
  /\ pc # "done"
  /\ pc' \in Positions
  /\ idx' \in 0..Len(player_configs)
  /\ <<pc', idx'>> # <<pc, idx>>

\* one /transcribe request whose external calls all return or raise: the
\* handler goes on as long as it has a step to take
SpecLive == Init /\ [][Next]_vars /\ WF_<<pc, idx>>(Advance)

-----------------------------------------------------------------------------
(* Two requests served at the same time by two threads of one process       *)

\* the file parts a client can send to /upload: none, or a name and a size in bytes
UploadSizes == {2048}
UploadInputs ==
  {None} \cup
  {Some([filename |-> f, size |-> n]) :
     f \in {F_CLIP_MP3, F_TALK_WAV_UPPER, F_NOTES_TXT, F_DOT_MP3, F_DIR_DOT, <<>>},
     n \in UploadSizes}

\* the registers of the request that is running
Registers ==
  [pc |-> pc,
   form |-> form,
   input_url |-> input_url,
   video_id |-> video_id,
   transcript_text |-> transcript_text,
   method_used |-> method_used,
   temp_dir |-> temp_dir,
   idx |-> idx,
   last_error |-> last_error,
   file_path |-> file_path,
   duration |-> duration,
   wav_path |-> wav_path,
   flashes |-> flashes,
   response |-> response,
   calls |-> calls,
   env |-> env,
   route |-> route,
   upload_file |-> upload_file,
   rid |-> rid]

\* the registers of request r before it starts: its route and what it was sent
FreshRegisters(r, rt, f, u) ==
  [pc |-> "start", form |-> f, input_url |-> <<>>, video_id |-> None,
   transcript_text |-> None, method_used |-> None, temp_dir |-> None, idx |-> 0,
   last_error |-> None, file_path |-> None, duration |-> 0, wav_path |-> None,
   flashes |-> <<>>, response |-> None, calls |-> <<>>, env |-> NoAnswers,
   route |-> rt, upload_file |-> u, rid |-> r]

\* the request that is not running
Parked == others[1]

\* the scheduler gives the processor to the other request
Switch ==
  /\ others # <<>>
  /\ others' = <<Registers>>
  /\ pc' = others[1].pc
  /\ form' = others[1].form
  /\ input_url' = others[1].input_url
  /\ video_id' = others[1].video_id
  /\ transcript_text' = others[1].transcript_text
  /\ method_used' = others[1].method_used
  /\ temp_dir' = others[1].temp_dir
  /\ idx' = others[1].idx
  /\ last_error' = others[1].last_error
  /\ file_path' = others[1].file_path
  /\ duration' = others[1].duration
  /\ wav_path' = others[1].wav_path
  /\ flashes' = others[1].flashes
  /\ response' = others[1].response
  /\ calls' = others[1].calls
  /\ env' = others[1].env
  /\ route' = others[1].route
  /\ upload_file' = others[1].upload_file
  /\ rid' = others[1].rid
  /\ UNCHANGED <<disk, faults>>

\* the answers the collaborators give while two requests run
ConcCaptionOutcomes ==
  {[raised |-> TRUE, cues |-> <<>>], [raised |-> FALSE, cues |-> <<T_HI>>]}
ConcProbeOutcomes ==
  {[exe |-> TRUE, raised |-> FALSE, stdout |-> OUT_42]}
ConcNormalizeOutcomes ==
  {[timeout |-> FALSE, rc_ok |-> TRUE, wrote |-> TRUE, stderr |-> <<>>],
   [timeout |-> FALSE, rc_ok |-> FALSE, wrote |-> TRUE, stderr |-> E_HTTP]}
ConcRecognizeOutcomes ==
  {[raised |-> TRUE, err |-> E_HTTP, segments |-> <<>>],
   [raised |-> FALSE, err |-> <<>>, segments |-> <<T_A_LEFT>>]}

ConcTier1 == Tier1 /\ env'.captions[1] \in ConcCaptionOutcomes
ConcTryStrategy ==
  /\ TryStrategy
  /\ env'.attempt[1].err \in {<<>>, E_HTTP}
  /\ disk' \ disk \subseteq {FilePath(temp_dir[1].dir, "audio_u", ".m4a")}
  /\ env'.attempt[1].raised => disk' = disk
ConcProbe == Probe /\ env'.probe[1] \in ConcProbeOutcomes
ConcNormalize == Normalize /\ env'.normalize[1] \in ConcNormalizeOutcomes
ConcRecognize == Recognize /\ env'.recognize[1] \in ConcRecognizeOutcomes

\* request 1 is a /transcribe of an accepted URL; request 2 is a /transcribe of
\* the same URL or an /upload
InitConc ==
  /\ Fresh
  /\ form = S_HTTPS \o H_WWW_MIXED \o P_WATCH
  /\ route = "transcribe"
  /\ upload_file = None
  /\ rid = 1
  /\ faults = {}
  /\ \/ others = <<FreshRegisters(2, "transcribe", form, None)>>
     \/ \E u \in UploadInputs : others = <<FreshRegisters(2, "upload", <<>>, u)>>

NextConc ==
  \/ Validate
  \/ Upload
  \/ ConcTier1
  \/ Mkdtemp
  \/ MkdtempFails
  \/ ConcTryStrategy
  \/ Exhausted
  \/ ConcProbe
  \/ ConcNormalize
  \/ ConcRecognize
  \/ Switch

SpecConc == InitConc /\ [][NextConc]_vars

Done == pc = "done"

----------------------------------------------------------------------------
(* Properties                                                              *)

IsError == flashes # <<>> /\ flashes[1].category = "error"
IsSuccess == flashes # <<>> /\ flashes[1].category = "success"

\* the download attempts made so far, by name and in order
StrategyOps ==
  LET names == {player_configs[i] : i \in DOMAIN player_configs}
      made == SelectSeq(calls, LAMBDA c : c.op \in names)
  IN [i \in 1..Len(made) |-> made[i].op]

Called(op) == \E i \in 1..Len(calls) : calls[i].op = op

\* the caption API answered, and its joined cues hold more than whitespace
CaptionsPresent ==
  /\ env.captions # None
  /\ ~env.captions[1].raised
  /\ strip(join(<<" ">>, env.captions[1].cues)) # <<>>

\* the caption API answered with nothing: it raised, or every cue is blank
CaptionsAbsent ==
  /\ env.captions # None
  /\ \/ env.captions[1].raised
     \/ \A i \in 1..Len(env.captions[1].cues) :
          \A k \in 1..Len(env.captions[1].cues[i]) : env.captions[1].cues[i][k] \in WS

\* C1: after any terminated /transcribe request, no file or directory created by
\* the request remains on disk.
C1_NothingRemains == Done => disk = {}

\* C2: when caption retrieval returns non-empty text, the request succeeds with
\* that text (stripped) and the caption method, and the only external call of
\* the request is the caption call: no scratch directory, no download strategy,
\* no probe, no normalization, no recognition.
C2_CaptionsShortCircuit ==
  CaptionsPresent =>
    /\ Done
    /\ flashes = <<Flash("success", MSG_SUCESSO_A \o METHOD_API \o MSG_SUCESSO_B)>>
    /\ response = Some(Render(Some(strip(join(<<" ">>, env.captions[1].cues)))))
    /\ calls = <<Call("captions", FALSE)>>
    /\ disk = {}

C2_Witness ==
  /\ Done
  /\ CaptionsPresent
  /\ env.captions[1].cues = <<T_OK_PADDED, T_HI>>

\* C3: when caption retrieval yields nothing, the request does not end at tier 1:
\* the call after the caption call is the first step of acquisition, and a failure
\* the request ends with is the exception handled by the except block of tier 2.
C3_Tier1Absorbed ==
  (CaptionsAbsent /\ Done) =>
    /\ Len(calls) >= 2
    /\ calls[2].op = "mkdtemp"
    /\ IsError => /\ env.exc # None
                  /\ flashes = <<Flash("error", MSG_ERRO \o format_error_message(env.exc[1]))>>

C3_Witness ==
  /\ Done
  /\ CaptionsAbsent
  /\ env.captions[1].raised
  /\ IsError
  /\ Len(StrategyOps) = 4

\* C4: when acquisition succeeded and the probed duration exceeds 600 seconds, the
\* request ends with the too-long failure, normalization and recognition are never
\* started, and the acquired file is no longer on disk.
C4_TooLong ==
  (file_path # None /\ env.probe # None /\ duration > 600 * 1000000) =>
    /\ Done
    /\ flashes = <<Flash("error", MSG_ERRO \o MSG_LONGO_A
                     \o int_to_str(duration \div 1000000) \o MSG_LONGO_B
                     \o <<"6","0","0">> \o MSG_LONGO_C)>>
    /\ response = Some(Redirect)
    /\ ~Called("ffmpeg")
    /\ ~Called("whisper")
    /\ file_path[1] \notin disk

C4_Witness ==
  /\ Done
  /\ file_path # None
  /\ env.probe # None
  /\ env.probe[1].stdout = OUT_600_5
  /\ duration = 600500000
  /\ IsError

\* C5: when all four strategies were tried and none gave a file, the request ends
\* with the failure of download_youtube_audio_with_fallbacks (its message, then
\* the last error recorded), and the scratch directory and everything in it are gone.
C5_Exhausted ==
  (Done /\ Len(StrategyOps) = 4 /\ file_path = None) =>
    /\ env.exc = Some(MSG_FALHA_DOWNLOAD \o (IF last_error = None THEN STR_NONE
                                              ELSE last_error[1]))
    /\ flashes = <<Flash("error", MSG_ERRO \o format_error_message(env.exc[1]))>>
    /\ response = Some(Redirect)
    /\ disk = {}

C5_Witness ==
  /\ Done
  /\ Len(StrategyOps) = 4
  /\ file_path = None
  /\ last_error = Some(E_HTTP)
  /\ \E i \in 1..Len(calls) : calls[i].op = "ios" /\ ~calls[i].raised

\* C6: every request gives exactly one outcome: nothing is flashed or returned
\* before the end, and at the end there is one flashed message and one response,
\* a success message with the rendered non-empty transcript or an error message
\* with a redirect.
C6_OneOutcome ==
  /\ ~Done => flashes = <<>> /\ response = None
  /\ Done =>
       /\ Len(flashes) = 1
       /\ response # None
       /\ \/ IsSuccess /\ response[1].kind = "render" /\ truthy(response[1].transcript)
          \/ IsError /\ response[1] = Redirect

C6_Witness ==
  /\ Done
  /\ IsError
  /\ env.recognize # None
  /\ env.recognize[1].raised

\* the inputs that are blank, that have no http(s) scheme, whose host is missing
\* or outside the allow-list, or that carry no id
RejectedInputs ==
  {<<>>, T_BLANK}
    \cup {s \o h \o p : s \in {S_FTP, <<>>}, h \in Hosts, p \in Paths}
    \cup {s \o h \o p : s \in Schemes, h \in {H_EVIL, <<>>}, p \in Paths}
    \cup {s \o h \o p : s \in Schemes, h \in Hosts, p \in {P_NO_ID, <<>>}}

ValidationMessages ==
  {MSG_INFORME_URL, MSG_URL_INVALIDA, MSG_DOMINIO, MSG_URL_VIDEO, MSG_SEM_ID}

\* C7: for an input that validation rejects, the request ends with a validation
\* message and no tier is invoked: no external call is made and nothing is
\* created on disk.
C7_RejectedNoTier ==
  form \in RejectedInputs =>
    /\ pc \in {"start", "done"}
    /\ calls = <<>>
    /\ disk = {}
    /\ Done => /\ Len(flashes) = 1
               /\ IsError
               /\ flashes[1].message \in ValidationMessages
               /\ response = Some(Redirect)

C7_Witness ==
  /\ Done
  /\ form = S_HTTPS \o H_EVIL \o P_WATCH
  /\ flashes = <<Flash("error", MSG_DOMINIO)>>

\* the trimmed non-empty texts of the segments, in order, with one space between
RECURSIVE joined_in_order(_)
joined_in_order(segments) ==
  IF segments = <<>> THEN <<>>
  ELSE LET first == strip(Head(segments))
           rest == joined_in_order(Tail(segments))
       IN IF first = <<>> THEN rest
          ELSE IF rest = <<>> THEN first
          ELSE first \o <<" ">> \o rest

\* C8: when recognition emits its segments, the request succeeds by speech
\* recognition with the trimmed non-empty segment texts joined by single spaces in
\* emission order, or with the no-speech sentinel when there is no such text.
C8_SegmentsJoined ==
  (Done /\ env.recognize # None /\ ~env.recognize[1].raised) =>
    /\ flashes = <<Flash("success", MSG_SUCESSO_A \o METHOD_WHISPER \o MSG_SUCESSO_B)>>
    /\ response =
         Some(Render(Some(IF joined_in_order(env.recognize[1].segments) = <<>>
                          THEN MSG_SEM_FALA
                          ELSE joined_in_order(env.recognize[1].segments))))

C8_Witness ==
  /\ Done
  /\ env.recognize # None
  /\ env.recognize[1].segments = <<T_B_RIGHT, T_A_LEFT>>
  /\ response = Some(Render(Some(<<"b", " ", "a">>)))

\* the known signatures, in the order of the classifier, and their messages
Signature(k, text) ==
  CASE k = 1 -> contains(SIG_SIGN_IN, text) \/ contains(SIG_BOT, lower(text))
    [] k = 2 -> contains(SIG_UNAVAILABLE, text)
    [] k = 3 -> contains(SIG_PLAYER, lower(text))
    [] k = 4 -> contains(SIG_FORMAT, text)

SignatureMessages == <<MSG_BLOQUEOU, MSG_INDISPONIVEL, MSG_PLAYER, MSG_FORMATO>>

Classified(text) ==
  LET hits == {k \in 1..4 : Signature(k, text)}
  IN IF hits = {} THEN text
     ELSE SignatureMessages[CHOOSE k \in hits : \A j \in hits : k <= j]

\* C9: the message flashed for a failure of tier 2 or 3 is the raw text of the
\* exception when it matches no known signature, and otherwise the fixed message
\* of the first signature it matches.
C9_Classifier ==
  env.exc # None => flashes = <<Flash("error", MSG_ERRO \o Classified(env.exc[1]))>>

C9_Witness ==
  /\ Done
  /\ env.exc = Some(MSG_FALHA_DOWNLOAD \o E_UNAVAILABLE_BOT)
  /\ flashes = <<Flash("error", MSG_ERRO \o MSG_BLOQUEOU)>>

\* the scratch directory holds a file with an audio extension
AudioInScratch ==
  /\ temp_dir # None
  /\ \E q \in disk : q.dir = temp_dir[1].dir /\ q.ext \in audio_extensions

\* the strategies are tried in the order android, ios, web_embed, android_web,
\* each at most once
InOrderOnce ==
  /\ Len(StrategyOps) <= 4
  /\ StrategyOps = SubSeq(<<"android", "ios", "web_embed", "android_web">>,
                          1, Len(StrategyOps))

\* C10 as stated: the strategies are tried in order, each at most once, and once a
\* strategy has ended with an audio file in the scratch directory no later
\* strategy is attempted.
C10_Original ==
  /\ InOrderOnce
  /\ (pc = "strategy" /\ idx > 1) => ~AudioInScratch

\* C10 as amended: the strategies are tried in order, each at most once; once a
\* strategy has returned without raising with an audio file in the scratch
\* directory, a file of the directory with an audio extension is returned and no
\* later strategy is attempted; a strategy that raises is followed by the next
\* one, whatever it left in the directory.
C10_Amended ==
  /\ InOrderOnce
  /\ (pc = "strategy" /\ idx > 1 /\ ~calls[Len(calls)].raised) => ~AudioInScratch
  /\ pc = "strategy" => file_path = None /\ idx = Len(StrategyOps) + 1
  /\ file_path # None =>
       /\ pc # "strategy"
       /\ file_path[1].dir = temp_dir[1].dir
       /\ file_path[1].ext \in audio_extensions
       /\ LET last == CHOOSE i \in 1..Len(calls) :
                        /\ calls[i].op = StrategyOps[Len(StrategyOps)]
                        /\ \A j \in (i + 1)..Len(calls) : calls[j].op \notin
                             {"android", "ios", "web_embed", "android_web"}
          IN ~calls[last].raised

C10_Witness ==
  /\ Done
  /\ StrategyOps = <<"android", "ios", "web_embed">>
  /\ calls[3].raised
  /\ calls[4].raised
  /\ ~calls[5].raised
  /\ file_path # None
  /\ IsSuccess

\* every strategy was tried and none gave a file
AllStrategiesFailed == Done /\ Len(StrategyOps) = 4 /\ file_path = None

\* C11: the strategies are independent: the file that acquisition returns was
\* written by the strategy that reported success, and is never a file that an
\* earlier, failed strategy left in the scratch directory.
C11_ReturnedFileIsFresh ==
  file_path # None => env.attempt # None /\ env.attempt[1].fresh

\* C12: when every strategy has failed, the failure carries the raw error of the
\* last strategy tried, the fourth, whether the strategies raised or ended
\* without a selectable file.
C12_CarriesFourthError ==
  AllStrategiesFailed =>
    /\ env.attempt[1].raised
    /\ env.exc = Some(MSG_FALHA_DOWNLOAD \o env.attempt[1].err)

\* C13: when normalization fails after the transform has written its output
\* file, that file is removed before the outcome of the request is returned.
C13_WavReleased ==
  (Done /\ file_path # None /\ env.normalize # None /\ env.normalize[1].wrote) =>
    wav_path_of(file_path[1]) \notin disk

\* the last message flashed is the failure exc, classified
FailureFlashed(exc) ==
  /\ flashes # <<>>
  /\ flashes[Len(flashes)] = Flash("error", MSG_ERRO \o format_error_message(exc))

\* C14: a release that fails never changes the outcome: a finished request
\* never answers with a server error; when recognition returned, the response
\* is the page with the text recognition gave; when recognition raised, the
\* failure reported is the one recognition raised; when every strategy failed,
\* the failure reported is the exhaustion; and this whichever removals the
\* filesystem refuses.
C14_OutcomeKept ==
  Done =>
    /\ response # Some(ServerError)
    /\ (env.recognize # None /\ ~env.recognize[1].raised) =>
         /\ env.exc = None
         /\ response = Some(Render(Some(whisper_result(env.recognize[1].segments))))
    /\ (env.recognize # None /\ env.recognize[1].raised) =>
         /\ env.exc = Some(env.recognize[1].err)
         /\ response = Some(Redirect)
         /\ FailureFlashed(env.recognize[1].err)
    /\ AllStrategiesFailed =>
         /\ env.exc = Some(exhausted_message(last_error))
         /\ response = Some(Redirect)
         /\ FailureFlashed(exhausted_message(last_error))

\* a request that succeeded although neither the normalized audio nor the
\* downloaded file could be removed
C14_Witness ==
  /\ Done /\ IsSuccess
  /\ env.recognize # None
  /\ wav_path # None /\ wav_path[1] \in disk /\ remove_fails(wav_path[1])
  /\ file_path # None /\ file_path[1] \in disk /\ remove_fails(file_path[1])

\* the path p lies in the scratch area of request r: its download directory,
\* or its uploaded file and the wav file made from it
Owns(r, p) ==
  \/ p.dir = mkdtemp(r).dir
  \/ p.dir = "tmp" /\ p.stem \in {upload_name(r), upload_name(r) \o "_audio"}

\* the scratch paths the request with the registers R holds
Held(R) ==
  {x[1] : x \in {y \in {R.temp_dir, R.file_path, R.wav_path} : y # None}}

\* what the next step of the request with the registers R reads is on the disk
InputsPresent(R) ==
  /\ R.pc \in {"probe", "normalize", "recognize"} => R.file_path[1] \in disk
  /\ R.pc = "recognize" => R.wav_path[1] \in disk

\* the outcome of the finished request with the registers R is the one its own
\* collaborators' answers decide
OwnOutcome(R) ==
  R.pc = "done" =>
    /\ (R.env.recognize # None /\ ~R.env.recognize[1].raised) =>
         /\ R.env.exc = None
         /\ R.response = Some(Render(Some(whisper_result(R.env.recognize[1].segments))))
    /\ (R.env.recognize # None /\ R.env.recognize[1].raised) =>
         /\ R.env.exc = Some(R.env.recognize[1].err)
         /\ R.response = Some(Redirect)
    /\ (R.env.normalize # None /\ R.env.recognize = None) =>
         /\ R.env.exc = Some(extract_failure_message(R.env.normalize[1].stderr))
         /\ R.response = Some(Redirect)
    /\ (R.env.captions # None /\ truthy(get_transcript_from_api(R.env.captions[1]))) =>
         /\ R.env.attempt = None
         /\ R.response = Some(Render(get_transcript_from_api(R.env.captions[1])))

\* the scratch areas of the two requests are apart, each request holds and
\* reads paths of its own area only, and each outcome is the request's own
RequestLocal ==
  others # <<>> =>
    /\ \A p \in disk : ~(Owns(rid, p) /\ Owns(Parked.rid, p))
    /\ \A p \in Held(Registers) : Owns(rid, p) /\ ~Owns(Parked.rid, p)
    /\ \A p \in Held(Parked) : Owns(Parked.rid, p) /\ ~Owns(rid, p)
    /\ InputsPresent(Registers) /\ InputsPresent(Parked)
    /\ OwnOutcome(Registers) /\ OwnOutcome(Parked)

\* a step of a request creates and removes paths of its own area only
OwnPathsOnly ==
  others # <<>> => \A p \in (disk' \ disk) \cup (disk \ disk') : Owns(rid, p)

\* C15: with two requests interleaved in any order, the scratch state is
\* request-local: the two scratch areas are disjoint, every directory or file a
\* request holds, reads, creates or deletes lies in its own area and is there
\* when it reads it, and the outcome of each request is the one its own
\* collaborators' answers decide, as when it runs alone.
C15_RequestLocal == []RequestLocal /\ [][OwnPathsOnly]_vars

\* request 1 has finished and released its files while request 2, parked before
\* recognition, still has its input and its wav file on the disk
C15_Witness ==
  /\ others # <<>>
  /\ rid = 1 /\ Done /\ IsSuccess /\ env.recognize # None
  /\ Parked.pc = "recognize"
  /\ Parked.file_path[1] \in disk /\ Parked.wav_path[1] \in disk

\* the tier an external call belongs to
TierOf(op) ==
  IF op = "captions" THEN 1
  ELSE IF op \in {"ffmpeg", "whisper"} THEN 3
  ELSE 2

\* at most four download attempts, no external call made twice, and the calls
\* of a tier never follow those of a later tier
BoundedOnce ==
  /\ Len(StrategyOps) <= 4
  /\ \A i, j \in 1..Len(calls) : i < j =>
       /\ calls[i].op # calls[j].op
       /\ TierOf(calls[i].op) <= TierOf(calls[j].op)

\* C16: when every external call returns or raises, every /transcribe request
\* reaches its terminal outcome, after at most four acquisition attempts, with
\* no tier re-entered and no strategy retried.
C16_Terminates == <>Done /\ []BoundedOnce /\ [][Advance]_vars

\* a request that ended after its fourth acquisition attempt gave the audio
C16_Witness ==
  /\ Done
  /\ Len(StrategyOps) = 4
  /\ file_path # None
  /\ Called("whisper")

\* the probe ran and gave no duration: it raised or timed out, or printed
\* nothing but whitespace
ProbeGaveNothing ==
  /\ env.probe # None
  /\ env.probe[1].exe
  /\ env.probe[1].raised \/ strip(env.probe[1].stdout) = <<>>

\* the probe ran and printed exactly the limit
ProbeGaveLimit ==
  /\ env.probe # None
  /\ env.probe[1].exe
  /\ ~env.probe[1].raised
  /\ env.probe[1].stdout = OUT_600

\* the request went past the duration guard: normalization is next or was
\* called, and recognition is called unless normalization fails
PastDurationGuard ==
  /\ pc \in {"normalize", "recognize", "done"}
  /\ env.exc # Some(too_long_message(duration))
  /\ pc \in {"recognize", "done"} => Called("ffmpeg")
  /\ (Done /\ ~calls[Len(calls)].raised) => Called("whisper") /\ IsSuccess

\* C17: the duration guard is fail-open: when the probe raises, times out or
\* prints no duration, the duration is 0.0, the guard passes and the request
\* goes on to normalization and recognition; a duration of exactly 600 seconds
\* passes as well.
C17_FailOpen ==
  /\ ProbeGaveNothing => duration = 0 /\ PastDurationGuard
  /\ ProbeGaveLimit => duration = MAX_VIDEO_DURATION * pow10(6) /\ PastDurationGuard

\* a request that ended with a transcript although the probe raised
C17_Witness ==
  /\ Done /\ IsSuccess
  /\ Called("whisper")
  /\ ProbeGaveNothing /\ env.probe[1].raised

\* the method named in the success message
ReportedMethod(method) ==
  flashes = <<Flash("success", MSG_SUCESSO_A \o method \o MSG_SUCESSO_B)>>

\* C18: a successful /transcribe request reports the caption method exactly when
\* acquisition was never invoked and the speech-recognition method otherwise;
\* the transcript it returns is not empty, and no request ever reaches the
\* failure "no transcript by any method".
C18_MethodReported ==
  /\ \A i \in 1..Len(flashes) : flashes[i].message # MSG_NENHUM_METODO
  /\ (Done /\ IsSuccess) =>
       /\ response # None /\ response[1].kind = "render"
       /\ truthy(response[1].transcript)
       /\ IF Called("mkdtemp")
          THEN ReportedMethod(METHOD_WHISPER) /\ Called("whisper")
          ELSE ReportedMethod(METHOD_API) /\ calls = <<Call("captions", FALSE)>>

\* a request that succeeded by speech recognition on audio without speech
C18_Witness ==
  /\ Done /\ IsSuccess
  /\ Called("mkdtemp")
  /\ env.recognize # None
  /\ text_parts(env.recognize[1].segments) = <<>>
  /\ response = Some(Render(Some(MSG_SEM_FALA)))

\* the positions at which a reference carries its id, in the order watch
\* parameter, short-link path, embed path, shorts path
id_positions ==
  << << <<"?","v","=">>, <<"&","v","=">> >>,
     << <<"y","o","u","t","u",".","b","e","/">> >>,
     << <<"/","e","m","b","e","d","/">> >>,
     << <<"/","s","h","o","r","t","s","/">> >> >>

\* the 11 characters at the first of these positions that the reference has
\* (Optional)
positional_id(url) ==
  LET ok == {p \in DOMAIN id_positions : re_search(id_positions[p], url) # None}
  IN IF ok = {} THEN None
     ELSE re_search(id_positions[CHOOSE p \in ok : \A q \in ok : p <= q], url)

\* C19: the id extracted from an accepted reference is the 11-character token
\* at its v= parameter, youtu.be path, embed/ path or shorts/ path, the first of
\* these in that order, and not another run of 11 characters of the URL; a
\* reference with no such position gives no id and is rejected.
C19_PositionalId ==
  /\ pc = "tier1" => video_id = positional_id(input_url)
  /\ (Done /\ flashes = <<Flash("error", MSG_URL_VIDEO)>>) =>
       positional_id(input_url) = None

=============================================================================
